---- MODULE Spec2Model ----
(***************************************************************************)
(* Vehicle-registration-certificate OCR pipeline (vehicle_ocr package,     *)
(* vehicle_parser_v3.py, run.py).                                          *)
(*                                                                         *)
(* Texts are sequences of characters; a character is a string.  ASCII      *)
(* characters are themselves ("A", "0", " ", "\n").  A Cyrillic letter is  *)
(* written as its Latin look-alike followed by "*": "A*" is the Cyrillic   *)
(* capital A (U+0410), "o*" the Cyrillic small o, and so on; "BE*", "YA*"  *)
(* and "YO*" are the Cyrillic capitals BE, YA and YO (YO lies outside the  *)
(* regex range U+0410..U+042F).                                            *)
(***************************************************************************)
EXTENDS Integers, Sequences, FiniteSets, TLC

VARIABLES
    fn_pc, fn_in, fn_out,                    \* one call of a pure function
    sw_pc, sw_rows, sw_i, sw_ocr, all_candidates, sw_attempts, sw_tried, sw_result,
                                             \* one body-number sweep
    impl, nfiles, idx, pc, cur, results, output, ocr_heights, decode_failures
                                             \* one batch run

fn_vars == <<fn_pc, fn_in, fn_out>>
sw_vars == <<sw_pc, sw_rows, sw_i, sw_ocr, all_candidates, sw_attempts, sw_tried,
            sw_result>>
batch_vars == <<impl, nfiles, idx, pc, cur, results, output, ocr_heights,
                decode_failures>>
vars == <<fn_vars, sw_vars, batch_vars>>

Nil == "Nil"        \* a variable that holds nothing yet

\* Optional[str]: Python's None, or a string
None == [some |-> FALSE, text |-> <<>>]
Str(t) == [some |-> TRUE, text |-> t]
\* the result variable of a sweep that has not returned
Pending == [some |-> FALSE, text |-> <<"pending">>]

\* What one pytesseract.image_to_string call does: it returns a text or raises
OcrRaises == [ok |-> FALSE, text |-> <<>>]
OcrReturns(t) == [ok |-> TRUE, text |-> t]

FnIdle == fn_pc = "idle" /\ fn_in = Nil /\ fn_out = Nil
SweepIdle ==
    /\ sw_pc = "idle" /\ sw_rows = 0 /\ sw_i = 0 /\ sw_ocr = Nil
    /\ all_candidates = <<>> /\ sw_attempts = 0 /\ sw_tried = {}
    /\ sw_result = Pending
BatchIdle ==
    /\ impl = Nil /\ nfiles = 0 /\ idx = 0 /\ pc = "idle" /\ cur = Nil
    /\ results = <<>> /\ output = Nil /\ ocr_heights = {} /\ decode_failures = 0

-----------------------------------------------------------------------------
(* Characters and the str / re primitives the code uses.                   *)

LatinUpper == {"A","B","C","D","E","F","G","H","I","J","K","L","M",
               "N","O","P","Q","R","S","T","U","V","W","X","Y","Z"}
LatinLower == {"a","b","c","e","h","i","k","m","n","o","p","t","v","w","x","y"}
Digits == {"0","1","2","3","4","5","6","7","8","9"}
PlateLetters == {"A*","B*","E*","K*","M*","H*","O*","P*","C*","T*","Y*","X*"}
CyrUpperRange == PlateLetters \cup {"BE*", "YA*"}      \* inside [U+0410-U+042F]
CyrUpper == CyrUpperRange \cup {"YO*"}
CyrLower == {"a*","b*","e*","k*","m*","h*","o*","p*","c*","t*","y*","x*","ya*"}

\* str.isalpha, str.isdigit
isalpha(c) == c \in LatinUpper \cup LatinLower \cup CyrUpper \cup CyrLower
isdigit(c) == c \in Digits
\* \w of a str pattern
IsWordChar(c) == isalpha(c) \/ isdigit(c) \/ c = "_"

UpperPairs ==
    << <<"a","A">>, <<"b","B">>, <<"c","C">>, <<"e","E">>, <<"h","H">>, <<"i","I">>,
       <<"k","K">>, <<"m","M">>, <<"n","N">>, <<"o","O">>, <<"p","P">>, <<"t","T">>,
       <<"v","V">>, <<"w","W">>, <<"x","X">>, <<"y","Y">>,
       <<"a*","A*">>, <<"b*","B*">>, <<"e*","E*">>, <<"k*","K*">>, <<"m*","M*">>,
       <<"h*","H*">>, <<"o*","O*">>, <<"p*","P*">>, <<"c*","C*">>, <<"t*","T*">>,
       <<"y*","Y*">>, <<"x*","X*">>, <<"ya*","YA*">> >>

UpperChar(c) ==
    LET Mapped(pairs) ==
            IF \E i \in 1..Len(pairs) : pairs[i][1] = c
            THEN pairs[CHOOSE i \in 1..Len(pairs) : pairs[i][1] = c][2]
            ELSE c
    IN Mapped(UpperPairs)

\* str.upper()
upper(text) == [i \in 1..Len(text) |-> UpperChar(text[i])]

\* re.sub(r'[^...]', '', s): keep the characters of a class
Keep(s, class) == SelectSeq(s, LAMBDA c : c \in class)

\* str.replace(old, new) for one-character old
Replace(text, old, new) == [i \in 1..Len(text) |-> IF text[i] = old THEN new ELSE text[i]]

RECURSIVE SplitFrom(_, _, _)
SplitFrom(s, i, acc) ==
    IF i > Len(s) THEN <<acc>>
    ELSE IF s[i] = "\n" THEN <<acc>> \o SplitFrom(s, i + 1, <<>>)
    ELSE SplitFrom(s, i + 1, Append(acc, s[i]))

\* str.split('\n')
SplitLines(s) == SplitFrom(s, 1, <<>>)

RECURSIVE JoinLines(_)
\* '\n'.join(parts)
JoinLines(parts) ==
    IF Len(parts) = 0 THEN <<>>
    ELSE IF Len(parts) = 1 THEN parts[1]
    ELSE parts[1] \o <<"\n">> \o JoinLines(Tail(parts))

-----------------------------------------------------------------------------
(* Settings (config.py defaults).  A ratio is <<numerator, denominator>>.  *)

min_image_height == 800
min_reg_number_length == 8
max_reg_number_length == 10
reg_number_region_start == <<15, 100>>
reg_number_region_end == <<30, 100>>
vin_region_start == <<25, 100>>
vin_region_end == <<60, 100>>
body_number_region_start == <<52, 100>>
body_number_region_end == <<68, 100>>

-----------------------------------------------------------------------------
(* ImagePreprocessor.  An image is its number of rows: [first, rows] is    *)
(* the band of the page a region covers.                                   *)

\* int(x) of the quotient n / d: truncation toward zero
TruncDiv(n, d) == IF n >= 0 THEN n \div d ELSE -((-n) \div d)

RECURSIVE Pow2(_)
Pow2(n) == IF n = 0 THEN 1 ELSE 2 * Pow2(n - 1)

RECURSIVE Pow2Mod(_, _)
\* 2^k mod n
Pow2Mod(k, n) == IF k = 0 THEN 1 % n ELSE (2 * Pow2Mod(k - 1, n)) % n

RECURSIVE FloorLog2From(_, _)
FloorLog2From(x, a) == IF Pow2(a + 1) <= x THEN FloorLog2From(x, a + 1) ELSE a
\* the largest a with 2^a <= x, for x >= 1
FloorLog2(x) == FloorLog2From(x, 0)

RECURSIVE RatioExpFrom(_, _, _)
\* the least e with p * 2^e >= q
RatioExpFrom(p, q, e) == IF p * Pow2(e) >= q THEN e ELSE RatioExpFrom(p, q, e + 1)

\* int(height * (p/q)) in IEEE-754 binary64 where 0 < p/q < 1 and the exact
\* product m = height*p/q is a whole number.  With 2^-e <= p/q < 2^(1-e) the
\* ratio is stored as (N + up) / 2^k, k = 52 + e, N = floor(p*2^k / q), rounded
\* up when the remainder r exceeds q/2 (ties to even N); the product of the
\* stored ratio is m + height*(q*up - r) / (q*2^k), and it rounds below m, so
\* that int() gives m - 1, exactly when it lies more than half a unit in the
\* last place under m.
FloatTruncProduct(height, p, q) ==
    LET Below(m, a, e, d) ==
            IF m = Pow2(a) THEN 4 * height * (-d) > q * Pow2(a + e)
            ELSE 2 * height * (-d) > q * Pow2(a + e)
        Product(m, e, r, n_odd) ==
            LET up == IF 2 * r > q \/ (2 * r = q /\ n_odd) THEN 1 ELSE 0
            IN IF Below(m, FloorLog2(m), e, q * up - r) THEN m - 1 ELSE m
        Stored(e, k) ==
            Product((height * p) \div q, e, (p * Pow2Mod(k, q)) % q,
                    ((p * Pow2Mod(k, 2 * q)) % (2 * q)) >= q)
        Exponent(e) == Stored(e, 52 + e)
    IN Exponent(RatioExpFrom(p, q, 0))

\* int(height * ratio), the ratio p/q being the float nearest to p/q.  An
\* inexact product lies further from every whole number than the rounding
\* can move it, so only a whole exact product can truncate differently.
IntOfProduct(height, ratio) ==
    IF /\ height > 0 /\ ratio[1] > 0 /\ ratio[1] < ratio[2]
       /\ (height * ratio[1]) % ratio[2] = 0
    THEN FloatTruncProduct(height, ratio[1], ratio[2])
    ELSE TruncDiv(height * ratio[1], ratio[2])

\* Where a slice bound lands in an axis of length n (numpy basic slicing)
SliceBound(b, n) ==
    IF b < 0 THEN (IF b + n < 0 THEN 0 ELSE b + n)
    ELSE (IF b > n THEN n ELSE b)

\* image[start_y:end_y, :]
SliceRows(height, start_y, end_y) ==
    LET lo == SliceBound(start_y, height)
        hi == SliceBound(end_y, height)
    IN [first |-> lo, rows |-> IF hi > lo THEN hi - lo ELSE 0]

extract_region(height, start_ratio, end_ratio) ==
    LET start_y == IntOfProduct(height, start_ratio)
        end_y == IntOfProduct(height, end_ratio)
    IN SliceRows(height, start_y, end_y)

RECURSIVE QuotientExpFrom(_, _, _)
QuotientExpFrom(h, m, j) ==
    IF h * Pow2(j + 1) <= m THEN QuotientExpFrom(h, m, j + 1) ELSE j

\* int(height * (min_height / height)) in IEEE-754 binary64 (round to nearest
\* even), for 1 <= height < min_height.  With 2^j <= m/h < 2^(j+1) the quotient
\* is q = (N + up) / 2^k, k = 52 - j, N = floor(m*2^k / h), rounded up when the
\* remainder r exceeds h/2 (ties to even N); the exact product h*q is
\* m + (h*up - r) / 2^k, and it rounds below m, so that int() gives m - 1,
\* exactly when it lies more than half a unit in the last place under m.
FloatScaledHeight(h, m) ==
    LET Below(a, j, d) ==
            IF m = Pow2(a) THEN 4 * (-d) > Pow2(a - j) ELSE 2 * (-d) > Pow2(a - j)
        Product(j, r, n_odd) ==
            LET up == IF 2 * r > h \/ (2 * r = h /\ n_odd) THEN 1 ELSE 0
            IN IF Below(FloorLog2(m), j, h * up - r) THEN m - 1 ELSE m
        Quotient(j, k) ==
            Product(j, (m * Pow2Mod(k, h)) % h,
                    ((m * Pow2Mod(k, 2 * h)) % (2 * h)) >= h)
        Exponent(j) == Quotient(j, 52 - j)
    IN Exponent(QuotientExpFrom(h, m, 0))

\* Rows of the image upscale_if_needed returns; -1 stands for the
\* ZeroDivisionError of min_height / height on an empty image.
upscale_if_needed(height) ==
    IF height >= min_image_height THEN height
    ELSE IF height = 0 THEN -1
    ELSE FloatScaledHeight(height, min_image_height)

\* The table with the digit 0 mapped to the Latin capital O instead of the
\* Cyrillic one: a slip of one look-alike glyph
char_map_latin_o ==
    << <<"O","O*">>, <<"o","o*">>, <<"0","O">>,
       <<"B","B*">>, <<"b","b*">>,
       <<"A","A*">>, <<"a","a*">>,
       <<"E","E*">>, <<"e","e*">>,
       <<"K","K*">>, <<"k","k*">>,
       <<"M","M*">>, <<"m","m*">>,
       <<"H","H*">>, <<"h","h*">>,
       <<"P","P*">>, <<"p","p*">>,
       <<"C","C*">>, <<"c","c*">>,
       <<"T","T*">>, <<"t","t*">>,
       <<"Y","Y*">>, <<"y","y*">>,
       <<"X","X*">>, <<"x","x*">> >>

\* The substitution table, in dict insertion order
char_map ==
    << <<"O","O*">>, <<"o","o*">>, <<"0","O*">>,
       <<"B","B*">>, <<"b","b*">>,
       <<"A","A*">>, <<"a","a*">>,
       <<"E","E*">>, <<"e","e*">>,
       <<"K","K*">>, <<"k","k*">>,
       <<"M","M*">>, <<"m","m*">>,
       <<"H","H*">>, <<"h","h*">>,
       <<"P","P*">>, <<"p","p*">>,
       <<"C","C*">>, <<"c","c*">>,
       <<"T","T*">>, <<"t","t*">>,
       <<"Y","Y*">>, <<"y","y*">>,
       <<"X","X*">>, <<"x","x*">> >>

RECURSIVE ReplaceAll(_, _, _, _)
\* for lat, cyr in table (taken in the order `order`): text = text.replace(lat, cyr)
ReplaceAll(table, order, k, text) ==
    IF k > Len(order) THEN text
    ELSE ReplaceAll(table, order, k + 1,
                    Replace(text, table[order[k]][1], table[order[k]][2]))

TableOrder == [i \in 1..Len(char_map) |-> i]

\* The substitution without the entry of the digit 0
normalize_letters_only(text) ==
    ReplaceAll(char_map, SelectSeq(TableOrder, LAMBDA i : char_map[i][1] # "0"), 1, text)

normalize_to_cyrillic(text) == ReplaceAll(char_map, TableOrder, 1, text)

-----------------------------------------------------------------------------
(* VehicleParser: the field patterns.                                      *)

VinAlphabet == (LatinUpper \ {"I", "O", "Q"}) \cup Digits     \* [A-HJ-NPR-Z0-9]

\* VIN_PATTERN.match(s): the pattern [A-HJ-NPR-Z0-9]{17}, anchored at the start
\* of s only
VIN_PATTERN_match(s) ==
    /\ Len(s) >= 17
    /\ \A i \in 1..17 : s[i] \in VinAlphabet

\* Length of the match of REG_NUMBER_PATTERN starting at position i of s,
\* 0 when there is none; \d{2,3} is greedy
RegNumberMatchLen(s, i) ==
    IF /\ i + 7 <= Len(s)
       /\ s[i] \in PlateLetters
       /\ \A k \in 1..3 : isdigit(s[i + k])
       /\ \A k \in 4..5 : s[i + k] \in PlateLetters
       /\ \A k \in 6..7 : isdigit(s[i + k])
    THEN (IF i + 8 <= Len(s) /\ isdigit(s[i + 8]) THEN 9 ELSE 8)
    ELSE 0

\* REG_NUMBER_PATTERN.fullmatch(s): the pattern has to use up the string
REG_NUMBER_PATTERN_fullmatch(s) == Len(s) > 0 /\ RegNumberMatchLen(s, 1) = Len(s)

\* REG_NUMBER_PATTERN.match(s)
REG_NUMBER_PATTERN_match(s) == RegNumberMatchLen(s, 1) > 0

-----------------------------------------------------------------------------
(* VehicleParser: the extractors.  An extractor's result is                *)
(* [raised, value, heights]: whether an exception left it, the string or   *)
(* None it returned, and the heights of the images it handed to the OCR    *)
(* engine.                                                                 *)

Returned(value, heights) == [raised |-> FALSE, value |-> value, heights |-> heights]
Raised(heights) == [raised |-> TRUE, value |-> None, heights |-> heights]

\* Rows of the image enhance_contrast returns; -1 stands for the cv2.error of
\* cvtColor / CLAHE on an empty image.
enhance_contrast(height) == IF height <= 0 THEN -1 ELSE height

\* The first match of REG_NUMBER_PATTERN.findall(s), <<>> when there is none
RECURSIVE FirstRegNumberFrom(_, _)
FirstRegNumberFrom(s, i) ==
    LET Match(n) == IF n > 0 THEN SubSeq(s, i, i + n - 1)
                    ELSE FirstRegNumberFrom(s, i + 1)
    IN IF i > Len(s) THEN <<>> ELSE Match(RegNumberMatchLen(s, i))

\* re.sub(r'[^<Cyrillic capitals>0-9]', '', line)
CleanLine(line) == Keep(line, CyrUpperRange \cup Digits)

\* The fallback test without its letter and digit counts
LineQualifiesByLength(cleaned) ==
    /\ min_reg_number_length <= Len(cleaned)
    /\ Len(cleaned) <= max_reg_number_length

\* The test a cleaned line passes to be returned by the line-by-line fallback
LineQualifies(cleaned) ==
    /\ min_reg_number_length <= Len(cleaned)
    /\ Len(cleaned) <= max_reg_number_length
    /\ \E i \in 1..Len(cleaned) : cleaned[i] \in CyrUpperRange
    /\ \E i \in 1..Len(cleaned) : isdigit(cleaned[i])
    /\ LET letter_count == Cardinality({i \in 1..Len(cleaned) : isalpha(cleaned[i])})
           digit_count == Cardinality({i \in 1..Len(cleaned) : isdigit(cleaned[i])})
       IN 3 <= letter_count /\ letter_count <= 4 /\ 4 <= digit_count /\ digit_count <= 6

RECURSIVE FirstQualifyingLine(_, _)
FirstQualifyingLine(lines, k) ==
    LET Line(cleaned) == IF LineQualifies(cleaned) THEN Str(cleaned)
                         ELSE FirstQualifyingLine(lines, k + 1)
    IN IF k > Len(lines) THEN None ELSE Line(CleanLine(lines[k]))

\* extract_reg_number from the OCR text on
RegNumberFromText(text) ==
    LET Matches(normalized, first) ==
            IF first # <<>>
            THEN Str(SelectSeq(first, LAMBDA c : c # " " /\ c # "\n"))
            ELSE FirstQualifyingLine(SplitLines(normalized), 1)
        Normalized(normalized) == Matches(normalized, FirstRegNumberFrom(normalized, 1))
    IN Normalized(normalize_to_cyrillic(upper(text)))

\* extract_reg_number(image); ocr is what the engine does with the plate region
extract_reg_number(height, ocr) ==
    LET Scaled(region) == IF height < min_image_height THEN upscale_if_needed(region)
                          ELSE region
        Ocr(processed) ==
            IF processed < 0 THEN Raised({})
            ELSE IF ~ocr.ok THEN Raised({processed})
            ELSE Returned(RegNumberFromText(ocr.text), {processed})
    IN Ocr(enhance_contrast(Scaled(extract_region(height, reg_number_region_start,
                                                  reg_number_region_end).rows)))

\* Every 17-character window of the cleaned text, VIN_PATTERN not consulted
WindowCandidatesUnfiltered(text) ==
    LET Windows(cleaned) ==
            [i \in 1..(Len(cleaned) - 16) |-> SubSeq(cleaned, i, i + 16)]
    IN Windows(Keep(upper(text), LatinUpper \cup Digits))

\* The 17-character windows of the cleaned text that VIN_PATTERN matches, in
\* order of position
WindowCandidates(text) ==
    LET Windows(cleaned) ==
            SelectSeq([i \in 1..(Len(cleaned) - 16) |-> SubSeq(cleaned, i, i + 16)],
                      VIN_PATTERN_match)
    IN Windows(Keep(upper(text), LatinUpper \cup Digits))

\* The candidates of one OCR pass inside try/except
PassCandidates(ocr) == IF ocr.ok THEN WindowCandidates(ocr.text) ELSE <<>>

vin_score(v) ==
    (IF isalpha(v[1]) THEN 10 ELSE 0)
    + Cardinality({i \in 10..17 : isdigit(v[i])})

RECURSIVE LastMaxFrom(_, _, _)
\* max with >= in place of >: the last item of maximal key
LastMaxFrom(scores, i, best) ==
    IF i > Len(scores) THEN best
    ELSE IF scores[i] >= scores[best] THEN LastMaxFrom(scores, i + 1, i)
    ELSE LastMaxFrom(scores, i + 1, best)

RECURSIVE FirstMaxFrom(_, _, _)
FirstMaxFrom(scores, i, best) ==
    IF i > Len(scores) THEN best
    ELSE IF scores[i] > scores[best] THEN FirstMaxFrom(scores, i + 1, i)
    ELSE FirstMaxFrom(scores, i + 1, best)

\* the position of the last item of maximal key
LastMax(scores) == LastMaxFrom(scores, 2, 1)

\* max(items, key=...): the position of the first item of maximal key
FirstMax(scores) == FirstMaxFrom(scores, 2, 1)

\* extract_vin(image); ocr3 and ocr6 are what the engine does at psm 3 and 6
extract_vin(height, ocr3, ocr6) ==
    LET Best(processed, candidates) ==
            IF processed < 0 THEN Raised({})
            ELSE IF candidates = <<>> THEN Returned(None, {processed})
            ELSE Returned(Str(candidates[FirstMax([i \in 1..Len(candidates) |->
                                                     vin_score(candidates[i])])]),
                          {processed})
        Scaled(scaled) ==
            Best(IF scaled < 0 THEN -1 ELSE enhance_contrast(scaled),
                 PassCandidates(ocr3) \o PassCandidates(ocr6))
    IN Scaled(upscale_if_needed(extract_region(height, vin_region_start,
                                               vin_region_end).rows))

\* The scale factors of a tall region, whatever the rows
scale_factors_tall(rows) == <<2, 3, 4>>

\* The variants of the body-number sweep: clip limit (tenths) and tile size,
\* scale factor (halves), page-segmentation mode
clahe_params == << <<20, 8>>, <<30, 8>>, <<20, 4>>, <<15, 16>> >>
scale_factors(rows) == IF rows >= 200 THEN <<2, 3, 4>> ELSE <<4, 5, 6>>
psm_modes == <<3, 6, 11>>

NumScales == Len(scale_factors(0))
NumVariants == Len(clahe_params) * NumScales * Len(psm_modes)
Variants == 0..(NumVariants - 1)

\* Position of variant v in each of the three nested loops (1-based)
ClaheOf(v) == (v \div (NumScales * Len(psm_modes))) + 1
ScaleOf(v) == ((v \div Len(psm_modes)) % NumScales) + 1
PsmOf(v) == (v % Len(psm_modes)) + 1

\* (clip_limit, tile_size), scale, psm of variant v
Combination(rows, v) ==
    <<clahe_params[ClaheOf(v)], scale_factors(rows)[ScaleOf(v)], psm_modes[PsmOf(v)]>>

\* Rows of the image variant v hands to the engine: int(rows * scale)
VariantHeight(rows, v) == (rows * scale_factors(rows)[ScaleOf(v)]) \div 2

\* The distinct elements in first-seen order, each counted once
CounterOfPresence(list) ==
    LET firsts == SelectSeq([i \in 1..Len(list) |-> i],
                            LAMBDA i : \A j \in 1..(i - 1) : list[j] # list[i])
    IN [k \in 1..Len(firsts) |-> <<list[firsts[k]], 1>>]

\* Counter(list).items(): the distinct elements in first-seen order, each with
\* its number of occurrences
Counter(list) ==
    LET firsts == SelectSeq([i \in 1..Len(list) |-> i],
                            LAMBDA i : \A j \in 1..(i - 1) : list[j] # list[i])
    IN [k \in 1..Len(firsts) |->
           <<list[firsts[k]],
             Cardinality({i \in 1..Len(list) : list[i] = list[firsts[k]]})>>]

combined_score(item) ==
    LET candidate == item[1]
        count == item[2]
        struct_score == (IF isalpha(candidate[1]) THEN 5 ELSE 0)
                        + Cardinality({i \in 10..17 : isdigit(candidate[i])})
    IN count * 10 + struct_score

\* The end of _extract_with_multiple_strategies, from `if not all_candidates` on
BestCandidate(candidates) ==
    LET Best(items) ==
            Str(items[FirstMax([k \in 1..Len(items) |-> combined_score(items[k])])][1])
    IN IF candidates = <<>> THEN None ELSE Best(Counter(candidates))

RECURSIVE SweepCandidates(_, _, _)
\* all_candidates after the variants v, v+1, ... of `run` in loop order; ocr[v]
\* is what the engine does on variant v
SweepCandidates(ocr, run, v) ==
    IF v >= NumVariants THEN <<>>
    ELSE IF v \in run THEN PassCandidates(ocr[v]) \o SweepCandidates(ocr, run, v + 1)
    ELSE SweepCandidates(ocr, run, v + 1)

\* _extract_with_multiple_strategies(image, region_start, region_end)
extract_with_multiple_strategies(height, region_start, region_end, ocr) ==
    LET Sweep(rows) ==
            IF rows = 0 THEN Raised({})      \* cv2.resize of an empty region
            ELSE Returned(BestCandidate(SweepCandidates(ocr, Variants, 0)),
                          {VariantHeight(rows, v) : v \in Variants})
    IN Sweep(extract_region(height, region_start, region_end).rows)

extract_body_number(height, ocr) ==
    extract_with_multiple_strategies(height, body_number_region_start,
                                     body_number_region_end, ocr)

\* ExtractionResult / the dict of one document
Record(file, reg, v, body) ==
    [file |-> file, reg_number |-> reg, vin |-> v, body_number |-> body]

\* What parse_document does: it raises, or returns a record; `heights` are the
\* <<field, rows>> of the images handed to the OCR engine on the way
ParseRaised(heights) ==
    [raised |-> TRUE, record |-> Record(0, None, None, None), heights |-> heights]
ParseReturned(record, heights) ==
    [raised |-> FALSE, record |-> record, heights |-> heights]
Tagged(field, heights) == {<<field, h>> : h \in heights}

\* VehicleParser.parse_document(image_path).  A document d is what cv2.imread
\* and the OCR engine make of the file: whether it decodes, its height, and
\* the engine's outcome on each region and configuration.
parse_document(file, d) ==
    LET Result(reg, v, body, h1, h2, h3) ==
            IF reg.raised THEN ParseRaised(h1)
            ELSE IF v.raised THEN ParseRaised(h1 \cup h2)
            ELSE IF body.raised THEN ParseRaised(h1 \cup h2 \cup h3)
            ELSE ParseReturned(Record(file, reg.value, v.value, body.value),
                               h1 \cup h2 \cup h3)
        Extracted(reg, v, body) ==
            Result(reg, v, body, Tagged("plate", reg.heights),
                   Tagged("vin", v.heights), Tagged("body", body.heights))
    IN IF ~d.decodable THEN ParseRaised({})                   \* ValueError
       ELSE Extracted(extract_reg_number(d.height, d.plate),
                      extract_vin(d.height, d.vin3, d.vin6),
                      extract_body_number(d.height, d.body))

\* bool(x) of an Optional[str]
Truthy(x) == x.some /\ Len(x.text) > 0

\* save_results with total_processed counting only the records in which a
\* field was found
save_results_successful(recs) ==
    [documents |-> recs,
     total_processed |->
        Cardinality({i \in 1..Len(recs) : \/ Truthy(recs[i].reg_number)
                                          \/ Truthy(recs[i].vin)
                                          \/ Truthy(recs[i].body_number)}),
     statistics |->
        [reg_numbers_found |-> Cardinality({i \in 1..Len(recs) : Truthy(recs[i].reg_number)}),
         vins_found |-> Cardinality({i \in 1..Len(recs) : Truthy(recs[i].vin)}),
         body_numbers_found |-> Cardinality({i \in 1..Len(recs) : Truthy(recs[i].body_number)})],
     version |-> "1.0.0"]

\* The output_data of VehicleParser.save_results(results, output_path)
save_results(recs) ==
    [documents |-> recs,
     total_processed |-> Len(recs),
     statistics |->
        [reg_numbers_found |-> Cardinality({i \in 1..Len(recs) : Truthy(recs[i].reg_number)}),
         vins_found |-> Cardinality({i \in 1..Len(recs) : Truthy(recs[i].vin)}),
         body_numbers_found |-> Cardinality({i \in 1..Len(recs) : Truthy(recs[i].body_number)})],
     version |-> "1.0.0"]

-----------------------------------------------------------------------------
(* FinalVehicleParser (vehicle_parser_v3.py), the parser run.py executes.  *)

\* Length of the match at position i of s of a pattern
\* <first letter>\d{3}<second letter><third letter>\d{2,3}; 0 when none
PlatePatternLen(s, i, first, second, third) ==
    IF /\ i + 7 <= Len(s)
       /\ s[i] \in first
       /\ \A k \in 1..3 : isdigit(s[i + k])
       /\ s[i + 4] \in second
       /\ s[i + 5] \in third
       /\ \A k \in 6..7 : isdigit(s[i + k])
    THEN (IF i + 8 <= Len(s) /\ isdigit(s[i + 8]) THEN 9 ELSE 8)
    ELSE 0

\* The three patterns of extract_reg_number, as letter classes
v3_patterns ==
    << <<PlateLetters, PlateLetters, PlateLetters>>,
       <<{"O*"}, {"B*"}, {"O*"}>>,
       <<{"B*"}, PlateLetters, PlateLetters>> >>

RECURSIVE FirstPatternMatchFrom(_, _, _)
\* re.findall(pattern, s)[0], <<>> when there is no match
FirstPatternMatchFrom(s, i, pat) ==
    LET Match(n) == IF n > 0 THEN SubSeq(s, i, i + n - 1)
                    ELSE FirstPatternMatchFrom(s, i + 1, pat)
    IN IF i > Len(s) THEN <<>>
       ELSE Match(PlatePatternLen(s, i, pat[1], pat[2], pat[3]))

RECURSIVE FirstOfPatterns(_, _)
\* for pattern in patterns: the first match of the first pattern that has one
FirstOfPatterns(s, k) ==
    LET Matches(first) == IF first # <<>> THEN first ELSE FirstOfPatterns(s, k + 1)
        Pattern(patterns) == IF k > Len(patterns) THEN <<>>
                             ELSE Matches(FirstPatternMatchFrom(s, 1, patterns[k]))
    IN Pattern(v3_patterns)

v3_LineQualifies(cleaned) ==
    /\ 8 <= Len(cleaned) /\ Len(cleaned) <= 10
    /\ \E i \in 1..Len(cleaned) : cleaned[i] \in CyrUpperRange
    /\ \E i \in 1..Len(cleaned) : isdigit(cleaned[i])
    /\ LET letter_count == Cardinality({i \in 1..Len(cleaned) : isalpha(cleaned[i])})
           digit_count == Cardinality({i \in 1..Len(cleaned) : isdigit(cleaned[i])})
       IN 3 <= letter_count /\ letter_count <= 4 /\ 4 <= digit_count /\ digit_count <= 6

RECURSIVE v3_FirstQualifyingLine(_, _)
v3_FirstQualifyingLine(lines, k) ==
    LET Line(cleaned) == IF v3_LineQualifies(cleaned) THEN Str(cleaned)
                         ELSE v3_FirstQualifyingLine(lines, k + 1)
    IN IF k > Len(lines) THEN None ELSE Line(CleanLine(lines[k]))

\* FinalVehicleParser.normalize_cyrillic: the same table, the same loop
v3_normalize_cyrillic(text) == ReplaceAll(char_map, TableOrder, 1, text)

\* FinalVehicleParser.extract_reg_number(image_path)
v3_extract_reg_number(d) ==
    LET Matches(normalized, first) ==
            IF first # <<>>
            THEN Str(SelectSeq(first, LAMBDA c : c # " " /\ c # "\n"))
            ELSE v3_FirstQualifyingLine(SplitLines(normalized), 1)
        Normalized(normalized) == Matches(normalized, FirstOfPatterns(normalized, 1))
        Ocr(processed) ==
            IF processed < 0 THEN Raised({})
            ELSE IF ~d.plate.ok THEN Raised({processed})
            ELSE Returned(Normalized(v3_normalize_cyrillic(upper(d.plate.text))),
                          {processed})
    IN IF ~d.decodable THEN Raised({})         \* img.shape of None: AttributeError
       ELSE Ocr(enhance_contrast(                             \* preprocess_image
                  SliceRows(d.height, TruncDiv(d.height * 15, 100),
                            TruncDiv(d.height * 30, 100)).rows))

\* \b[A-HJ-NPR-Z0-9]{17}\b matches at position i of s
WordVinAt(s, i) ==
    /\ i + 16 <= Len(s)
    /\ \A k \in 0..16 : s[i + k] \in VinAlphabet
    /\ (i = 1 \/ ~IsWordChar(s[i - 1]))
    /\ (i + 16 = Len(s) \/ ~IsWordChar(s[i + 17]))

\* ^[A-HJ-NPR-Z0-9]{17}$ against a 17-character window
ExactVin(c) == Len(c) = 17 /\ \A k \in 1..17 : c[k] \in VinAlphabet

\* Method 2: the first window, over the lines of 15..19 cleaned characters, that
\* is a VIN and starts with one of the letters WJKLMNPRSTUVXYZ
v3_Method2(combined) ==
    LET starts == {"W","J","K","L","M","N","P","R","S","T","U","V","X","Y","Z"}
        hit(line, i) == /\ 15 <= Len(line) /\ Len(line) <= 19
                        /\ i + 16 <= Len(line)
                        /\ ExactVin(SubSeq(line, i, i + 16))
                        /\ line[i] \in starts
        Window(lines, first) == Str(SubSeq(lines[first[1]], first[2], first[2] + 16))
        First(lines, hits) ==
            IF hits = {} THEN None
            ELSE Window(lines, CHOOSE x \in hits :
                                  \A y \in hits : x[1] < y[1] \/ (x[1] = y[1] /\ x[2] <= y[2]))
        Lines(lines) ==
            First(lines, {<<k, i>> \in (1..Len(lines)) \X (1..3) : hit(lines[k], i)})
    IN Lines(SplitLines(Keep(upper(combined), LatinUpper \cup Digits \cup {"\n"})))

\* 'VIN' in line
HasVIN(line) ==
    \E i \in 1..(Len(line) - 2) : line[i] = "V" /\ line[i + 1] = "I" /\ line[i + 2] = "N"

\* Method 3: the first VIN window in the three lines from a line that says VIN
v3_Method3(combined) ==
    LET context(lines, k) ==
            JoinLines(SubSeq(lines, k, IF k + 2 <= Len(lines) THEN k + 2 ELSE Len(lines)))
        \* cleaned[k]: the cleaned context of line k, <<>> when the line lacks VIN
        Cleaned(lines) ==
            [k \in 1..Len(lines) |->
                IF HasVIN(upper(lines[k]))
                THEN Keep(upper(context(lines, k)), LatinUpper \cup Digits)
                ELSE <<>>]
        hit(line, j) == j + 16 <= Len(line) /\ ExactVin(SubSeq(line, j, j + 16))
        Window(cleaned, first) == Str(SubSeq(cleaned[first[1]], first[2], first[2] + 16))
        First(cleaned, hits) ==
            IF hits = {} THEN None
            ELSE Window(cleaned, CHOOSE x \in hits :
                                    \A y \in hits : x[1] < y[1] \/ (x[1] = y[1] /\ x[2] <= y[2]))
        Contexts(cleaned) ==
            First(cleaned, {<<k, j>> \in (1..Len(cleaned)) \X (1..Len(combined)) :
                               hit(cleaned[k], j)})
    IN Contexts(Cleaned(SplitLines(combined)))

\* FinalVehicleParser.extract_vin(image_path); the page decoded in
\* extract_reg_number before
v3_extract_vin(d) ==
    LET Method3(combined, second) ==
            IF second.some THEN second ELSE v3_Method3(combined)
        Window(up, i) == Str(SubSeq(up, i, i + 16))
        Method1(combined, up, exact) ==
            IF exact # {} THEN Window(up, CHOOSE i \in exact : \A k \in exact : i <= k)
            ELSE Method3(combined, v3_Method2(combined))
        Upper(combined, up) ==
            Method1(combined, up, {i \in 1..Len(up) : WordVinAt(up, i)})
        Combined(combined) == Upper(combined, upper(combined))
        Ocr(processed) ==
            IF processed < 0 THEN Raised({})
            ELSE Returned(Combined(JoinLines(
                              (IF d.vin6.ok THEN <<d.vin6.text>> ELSE <<>>)
                              \o (IF d.vin3.ok THEN <<d.vin3.text>> ELSE <<>>))),
                          {processed})
    IN Ocr(enhance_contrast(SliceRows(d.height, TruncDiv(d.height * 25, 100),
                                      TruncDiv(d.height * 60, 100)).rows))

correct_vin_ocr_errors(v) ==
    IF Len(v) = 0 \/ Len(v) # 17 THEN v
    ELSE IF v[1] = "N" /\ v[2] = "P" THEN <<"W">> \o Tail(v)
    ELSE v

\* FinalVehicleParser.parse_document(image_path)
v3_parse_document(file, d) ==
    LET Corrected(v) == IF Truthy(v) THEN Str(correct_vin_ocr_errors(v.text)) ELSE v
        Result(reg, found, v, h1, h2) ==
            LET body_number == v
            IN IF reg.raised THEN ParseRaised(h1)
               ELSE IF found.raised THEN ParseRaised(h1 \cup h2)
               ELSE ParseReturned(Record(file, reg.value, v, body_number), h1 \cup h2)
        Extracted(reg, found) ==
            Result(reg, found, Corrected(found.value),
                   Tagged("plate", reg.heights), Tagged("vin", found.heights))
    IN Extracted(v3_extract_reg_number(d), v3_extract_vin(d))

\* The output_data of run.py's main
run_output(recs) ==
    [documents |-> recs, total_processed |-> Len(recs), version |-> "v3-production"]

-----------------------------------------------------------------------------
(* Calls of the pure functions, one per behaviour.                         *)

MaxTextLen == 2

RECURSIVE TextsUpTo(_, _)
TextsUpTo(alphabet, n) ==
    IF n = 0 THEN {<<>>}
    ELSE LET shorter == TextsUpTo(alphabet, n - 1)
         IN shorter \cup {Append(t, c) : t \in {u \in shorter : Len(u) = n - 1},
                                         c \in alphabet}

TableKeys == {char_map[i][1] : i \in 1..Len(char_map)}
TableValues == {char_map[i][2] : i \in 1..Len(char_map)}

\* The characters normalization is tried on: every key, every value, and
\* characters the table does not mention
GlyphChars == TableKeys \cup TableValues \cup {"1", "W", " ", "BE*"}

Reversed(order) == [i \in 1..Len(order) |-> order[Len(order) + 1 - i]]
Rotated(order, n) == [i \in 1..Len(order) |-> order[((i - 1 + n) % Len(order)) + 1]]

\* Other orders in which the table entries could be applied
TableOrders == {Reversed(TableOrder), Rotated(TableOrder, 2),
                Rotated(Reversed(TableOrder), 11)}

InitGlyph ==
    /\ fn_pc = "called"
    /\ fn_in \in TextsUpTo(GlyphChars, MaxTextLen)
    /\ fn_out = Nil
    /\ SweepIdle /\ BatchIdle

NormalizeToCyrillic ==
    /\ fn_pc = "called"
    /\ fn_out' = normalize_to_cyrillic(fn_in)
    /\ fn_pc' = "returned"
    /\ UNCHANGED <<fn_in, sw_vars, batch_vars>>

SpecGlyph == InitGlyph /\ [][NormalizeToCyrillic]_vars

\* The table read as a mapping: the value of key c
TableValue(c) == char_map[CHOOSE i \in 1..Len(char_map) : char_map[i][1] = c][2]
Substitute(c) == IF c \in TableKeys THEN TableValue(c) ELSE c

\* C10: normalization equals one per-character substitution by the table, is
\* idempotent, leaves Cyrillic text unchanged, and gives the same result
\* whatever the order in which the table entries are applied.
C10_GlyphNormalization ==
    fn_pc = "returned" =>
        /\ fn_out = [i \in 1..Len(fn_in) |-> Substitute(fn_in[i])]
        /\ normalize_to_cyrillic(fn_out) = fn_out
        /\ (\A i \in 1..Len(fn_in) : fn_in[i] \in CyrUpper \cup CyrLower) => fn_out = fn_in
        /\ \A order \in TableOrders : ReplaceAll(char_map, order, 1, fn_in) = fn_out

C10_Witness ==
    fn_pc = "returned" /\ fn_in = <<"0", "B">> /\ fn_out = <<"O*", "B*">>

-----------------------------------------------------------------------------
(* VIN_PATTERN.match on strings around a valid VIN.                        *)

VinA == <<"W","P","1","Z","Z","Z","9","P","Z","9","L","A","4","2","2","9","0">>
VinB == <<"W","V","W","Z","Z","Z","3","C","Z","W","E","1","2","3","4","5","6">>

MaxExtra == 1      \* characters a tried string may have beyond 17
MaxShort == 1      \* characters a tried string may lack

PatternChars == {"O", "I", "Q", "A", "7", "a", "-", "A*"}

\* base, then `extra` more characters, one position overwritten, cut to len
PatternText(base, extra, pos, ch, len) ==
    LET long == base \o [i \in 1..extra |-> "7"]
        put == [i \in 1..Len(long) |-> IF i = pos THEN ch ELSE long[i]]
    IN SubSeq(put, 1, len)

PatternInputs ==
    {PatternText(base, MaxExtra, pos, ch, len) :
        base \in {VinA, VinB}, pos \in 1..(17 + MaxExtra), ch \in PatternChars,
        len \in (17 - MaxShort)..(17 + MaxExtra)}
    \cup {VinA, VinB}

InitPattern ==
    /\ fn_pc = "called"
    /\ fn_in \in PatternInputs
    /\ fn_out = Nil
    /\ SweepIdle /\ BatchIdle

VinPatternMatch ==
    /\ fn_pc = "called"
    /\ fn_out' = VIN_PATTERN_match(fn_in)
    /\ fn_pc' = "returned"
    /\ UNCHANGED <<fn_in, sw_vars, batch_vars>>

SpecPattern == InitPattern /\ [][VinPatternMatch]_vars

\* C9: a string is accepted by VIN_PATTERN.match if and only if it is exactly
\* 17 characters long and every character is in the VIN alphabet.
C9_VinPatternExact ==
    fn_pc = "returned" =>
        (fn_out <=> (Len(fn_in) = 17 /\ \A i \in 1..Len(fn_in) : fn_in[i] \in VinAlphabet))

-----------------------------------------------------------------------------
(* REG_NUMBER_PATTERN.match on plates, near-plates and the strings of the  *)
(* pattern test.                                                           *)

PlateA == <<"A*","1","2","3","A*","A*","7","7">>
PlateB == <<"B*","8","8","3","B*","O*","7","9","9">>
AllDigits == <<"1","2","3","4","5">>
AllLetters == <<"A*","A*","A*","A*","A*","A*">>

PlateInputs ==
    {PatternText(base, 2, pos, ch, len) :
        base \in {PlateA, PlateB}, pos \in 1..10,
        ch \in {"A*", "B", "BE*", "a*", "7", "-"}, len \in 0..10}
    \cup {PlateA, PlateB, AllDigits, AllLetters}

InitPlate ==
    /\ fn_pc = "called"
    /\ fn_in \in PlateInputs
    /\ fn_out = Nil
    /\ SweepIdle /\ BatchIdle

RegNumberPatternMatch ==
    /\ fn_pc = "called"
    /\ fn_out' = REG_NUMBER_PATTERN_match(fn_in)
    /\ fn_pc' = "returned"
    /\ UNCHANGED <<fn_in, sw_vars, batch_vars>>

SpecPlate == InitPlate /\ [][RegNumberPatternMatch]_vars

\* s starts with a plate letter, three digits, two plate letters and n digits
StartsWithPlate(s, n) ==
    /\ Len(s) >= 6 + n
    /\ s[1] \in PlateLetters
    /\ {s[i] : i \in 2..4} \subseteq Digits
    /\ {s[i] : i \in 5..6} \subseteq PlateLetters
    /\ {s[i] : i \in 7..(6 + n)} \subseteq Digits

\* C13: the plate pattern accepts a string exactly when it starts with one
\* plate letter, three digits, two plate letters and two or three digits; it
\* rejects every string made only of digits and every string made only of
\* letters.
C13_PlatePatternGrammar ==
    fn_pc = "returned" =>
        /\ fn_out <=> (StartsWithPlate(fn_in, 2) \/ StartsWithPlate(fn_in, 3))
        /\ (\A i \in 1..Len(fn_in) : isdigit(fn_in[i])) => ~fn_out
        /\ (\A i \in 1..Len(fn_in) : isalpha(fn_in[i])) => ~fn_out

\* A two-digit-region plate followed by something else is accepted
C13_Witness ==
    /\ fn_pc = "returned"
    /\ fn_out = TRUE
    /\ Len(fn_in) = 10
    /\ ~isdigit(fn_in[9])

-----------------------------------------------------------------------------
(* The cleaning and windowing of one raw OCR text (extract_vin and the     *)
(* body-number sweep share it), on a VIN with one stray character read     *)
(* into it.                                                                *)

StrayTexts ==
    {SubSeq(base, 1, pos) \o <<ch>> \o SubSeq(base, pos + 1, Len(base)) :
        base \in {VinA, VinB}, pos \in 0..17, ch \in {"O", "I", "Q", "o", "-", " ", "7"}}

InitWindows ==
    /\ fn_pc = "called"
    /\ fn_in \in StrayTexts
    /\ fn_out = Nil
    /\ SweepIdle /\ BatchIdle

CollectWindows ==
    /\ fn_pc = "called"
    /\ fn_out' = WindowCandidates(fn_in)
    /\ fn_pc' = "returned"
    /\ UNCHANGED <<fn_in, sw_vars, batch_vars>>

SpecWindows == InitWindows /\ [][CollectWindows]_vars

\* every 17-character window of s, left to right
AllWindows(s) == [i \in 1..(Len(s) - 16) |-> SubSeq(s, i, i + 16)]

\* C14: each raw OCR text is uppercased and every character outside the VIN
\* alphabet (A-Z without I, O, Q, plus digits) is removed before windowing,
\* so every 17-character window of the cleaned string is a candidate and a
\* stray I, O or Q never keeps the valid characters around it from forming
\* one.
C14_StrayLettersRemoved ==
    fn_pc = "returned" => fn_out = AllWindows(Keep(upper(fn_in), VinAlphabet))

-----------------------------------------------------------------------------
(* extract_region on pages and windows, valid and not.                     *)

RegionHeights == {1, 7, 100, 277}

Ratios == {<<-1, 2>>, <<-1, 4>>, <<0, 1>>, <<1, 4>>, <<1, 2>>, <<3, 4>>, <<1, 1>>,
           <<5, 4>>, <<3, 2>>, <<29, 100>>, <<35, 100>>,
           reg_number_region_start, reg_number_region_end, vin_region_end,
           body_number_region_start, body_number_region_end}

RatioLess(a, b) == a[1] * b[2] < b[1] * a[2]
RatioInUnit(a) == a[1] >= 0 /\ a[1] <= a[2]

InitRegion ==
    /\ fn_pc = "called"
    /\ fn_in \in [height : RegionHeights, start_ratio : Ratios, end_ratio : Ratios]
    /\ fn_out = Nil
    /\ SweepIdle /\ BatchIdle

ExtractRegion ==
    /\ fn_pc = "called"
    /\ fn_out' = extract_region(fn_in.height, fn_in.start_ratio, fn_in.end_ratio)
    /\ fn_pc' = "returned"
    /\ UNCHANGED <<fn_in, sw_vars, batch_vars>>

SpecRegion == InitRegion /\ [][ExtractRegion]_vars

\* C8: extract_region returns an empty region, and no error, whenever
\* start_ratio >= end_ratio or either ratio lies outside [0,1].
C8_EmptyOnInvalidRatios ==
    fn_pc = "returned" =>
        ((\/ ~RatioLess(fn_in.start_ratio, fn_in.end_ratio)
          \/ ~RatioInUnit(fn_in.start_ratio)
          \/ ~RatioInUnit(fn_in.end_ratio))
            => fn_out.rows = 0)

\* floor(height * ratio) of the real product
FloorOfProduct(height, ratio) == (height * ratio[1]) \div ratio[2]

\* C11: for every source height H and all ratios with 0 <= start < end <= 1,
\* extract_region returns the rows floor(H*start) up to but excluding
\* floor(H*end), that is floor(H*end) - floor(H*start) rows.
C11_RegionRows ==
    fn_pc = "returned" =>
        ((/\ RatioInUnit(fn_in.start_ratio) /\ RatioInUnit(fn_in.end_ratio)
          /\ RatioLess(fn_in.start_ratio, fn_in.end_ratio))
            => /\ fn_out.first = FloorOfProduct(fn_in.height, fn_in.start_ratio)
               /\ fn_out.rows = FloorOfProduct(fn_in.height, fn_in.end_ratio)
                                - FloorOfProduct(fn_in.height, fn_in.start_ratio))

-----------------------------------------------------------------------------
(* upscale_if_needed on images under, at and over the minimum height.      *)

UpscaleHeights == 0..(min_image_height + 200)

InitUpscale ==
    /\ fn_pc = "called"
    /\ fn_in \in UpscaleHeights
    /\ fn_out = Nil
    /\ SweepIdle /\ BatchIdle

UpscaleIfNeeded ==
    /\ fn_pc = "called"
    /\ \E rows \in {upscale_if_needed(fn_in)} :
          /\ fn_out' = rows
          /\ fn_pc' = IF rows < 0 THEN "raised" ELSE "returned"
    /\ UNCHANGED <<fn_in, sw_vars, batch_vars>>

SpecUpscale == InitUpscale /\ [][UpscaleIfNeeded]_vars

\* C12: upscale_if_needed returns an image of height at least the configured
\* minimum whenever the input height is positive and below the minimum, and
\* the input unchanged whenever its height is at least the minimum.
C12_UpscaleReachesMinimum ==
    fn_pc = "returned" =>
        /\ (fn_in > 0 /\ fn_in < min_image_height) => fn_out >= min_image_height
        /\ fn_in >= min_image_height => fn_out = fn_in

-----------------------------------------------------------------------------
(* The OCR engine on the body-number region.  The engine is a black box:   *)
(* what it does on a variant is fixed by the document, here by one of a    *)
(* few reading profiles.                                                   *)

\* VinA with its last digit misread: same structure, another string
VinA8 == SubSeq(VinA, 1, 16) \o <<"8">>
\* starts with a digit, no digit in the serial positions 10..17
VinX == <<"1","P","1","Z","Z","Z","9","P","Z","S","L","A","H","Z","Z","G","B">>
\* starts with a letter, all digits in the serial positions
VinY == <<"W","P","1","Z","Z","Z","9","P","Z","1","2","3","4","5","6","7","8">>

TextA == <<"N","o"," ">> \o VinA \o <<"\n">>
TextA8 == <<"w","p">> \o SubSeq(VinA8, 3, 17)
TextX == SubSeq(VinX, 1, 3) \o <<"-">> \o SubSeq(VinX, 4, 17)
TextY == VinY \o <<" ">>
TextLong == VinA \o <<"7">>
TextO == SubSeq(VinA, 1, 9) \o <<"O">> \o SubSeq(VinA, 11, 17)

BodyProfiles == {"blank", "clean", "psm", "rare", "long", "down"}

BodyEngine(profile, v) ==
    CASE profile = "blank" -> OcrReturns(<<>>)
      [] profile = "clean" -> OcrReturns(TextA)
      [] profile = "psm" ->
            IF PsmOf(v) = 1 THEN OcrReturns(TextA)
            ELSE IF PsmOf(v) = 2 THEN OcrReturns(TextA8)
            ELSE OcrRaises
      [] profile = "rare" ->
            IF v \in {0, 1} THEN OcrReturns(TextX)
            ELSE IF v = 2 THEN OcrReturns(TextY)
            ELSE OcrReturns(<<>>)
      [] profile = "long" ->
            IF ScaleOf(v) = 3 THEN OcrReturns(TextLong)
            ELSE IF ClaheOf(v) = 4 THEN OcrReturns(TextO)
            ELSE OcrReturns(<<>>)
      [] OTHER -> OcrRaises

BodyOcr(profile) == [v \in Variants |-> BodyEngine(profile, v)]

\* The engine of a sweep: the profile, with the call on variant `fail` made to
\* raise (fail = -1: no call is made to raise)
SweepEngine(ocr, v) == IF v = ocr.fail THEN OcrRaises ELSE BodyEngine(ocr.profile, v)

-----------------------------------------------------------------------------
(* One run of _extract_with_multiple_strategies, OCR pass by OCR pass.     *)

SweepPages == {2, 277, 2000}

InitSweep ==
    /\ sw_pc = "loop"
    /\ \E h \in SweepPages :
          sw_rows = extract_region(h, body_number_region_start,
                                   body_number_region_end).rows
    /\ sw_ocr \in [profile : BodyProfiles, fail : {-1} \cup Variants]
    /\ sw_i = 0
    /\ all_candidates = <<>>
    /\ sw_attempts = 0
    /\ sw_tried = {}
    /\ sw_result = Pending
    /\ FnIdle /\ BatchIdle

\* The body of `try`: the call returns, its windows are appended
OcrPassReturns ==
    /\ sw_pc = "loop" /\ sw_rows > 0 /\ sw_i < NumVariants
    /\ SweepEngine(sw_ocr, sw_i).ok
    /\ all_candidates' = all_candidates \o WindowCandidates(SweepEngine(sw_ocr, sw_i).text)
    /\ sw_i' = sw_i + 1
    /\ sw_attempts' = sw_attempts + 1
    /\ sw_tried' = sw_tried \cup {Combination(sw_rows, sw_i)}
    /\ UNCHANGED <<sw_pc, sw_rows, sw_ocr, sw_result, fn_vars, batch_vars>>

\* The pass without its try/except: the exception of the OCR call leaves the
\* sweep, which selects nothing
OcrPassAborts ==
    /\ sw_pc = "loop" /\ sw_rows > 0 /\ sw_i < NumVariants
    /\ ~SweepEngine(sw_ocr, sw_i).ok
    /\ sw_pc' = "done"
    /\ sw_result' = None
    /\ UNCHANGED <<sw_rows, sw_i, sw_ocr, all_candidates, sw_attempts, sw_tried, fn_vars,
                   batch_vars>>

\* `except Exception: pass`
OcrPassRaises ==
    /\ sw_pc = "loop" /\ sw_rows > 0 /\ sw_i < NumVariants
    /\ ~SweepEngine(sw_ocr, sw_i).ok
    /\ sw_i' = sw_i + 1
    /\ sw_attempts' = sw_attempts + 1
    /\ sw_tried' = sw_tried \cup {Combination(sw_rows, sw_i)}
    /\ UNCHANGED <<sw_pc, sw_rows, sw_ocr, all_candidates, sw_result, fn_vars, batch_vars>>

\* After the loops: Counter, combined_score, max
SweepFinish ==
    /\ sw_pc = "loop" /\ sw_i = NumVariants
    /\ sw_pc' = "done"
    /\ sw_result' = BestCandidate(all_candidates)
    /\ UNCHANGED <<sw_rows, sw_i, sw_ocr, all_candidates, sw_attempts, sw_tried, fn_vars,
                   batch_vars>>

\* cv2.resize of a region without rows raises, before the first pass and
\* outside every try
ResizeRaises ==
    /\ sw_pc = "loop" /\ sw_rows = 0
    /\ sw_pc' = "raised"
    /\ UNCHANGED <<sw_rows, sw_i, sw_ocr, all_candidates, sw_attempts, sw_tried, sw_result,
                   fn_vars, batch_vars>>

NextSweep == OcrPassReturns \/ OcrPassRaises \/ SweepFinish \/ ResizeRaises

SpecSweep == InitSweep /\ [][NextSweep]_vars

\* C3: a sweep in which one variant's OCR call fails selects the same body
\* number as the sweep over the other 35 variants with unchanged outputs.
C3_FailedPassSwallowed ==
    (sw_pc = "done" /\ sw_ocr.fail \in Variants) =>
        sw_result = BestCandidate(SweepCandidates(BodyOcr(sw_ocr.profile),
                                                  Variants \ {sw_ocr.fail}, 0))

\* The failing call is the only one that would have read VinY, and the sweep
\* still selects the candidate of the other passes
C3_Witness ==
    /\ sw_pc = "done" /\ sw_ocr.profile = "rare" /\ sw_ocr.fail = 2
    /\ sw_attempts = NumVariants
    /\ sw_result = Str(VinX)

Occurrences(c, list) == Cardinality({i \in 1..Len(list) : list[i] = c})
FirstSeen(c, list) == CHOOSE i \in 1..Len(list) :
                          list[i] = c /\ \A j \in 1..(i - 1) : list[j] # c
\* count*10 + (5 if the first character is a letter) + digits in 10..17
StatedScore(c, list) ==
    Occurrences(c, list) * 10
    + (IF c[1] \in LatinUpper THEN 5 ELSE 0)
    + Cardinality({i \in 10..17 : c[i] \in Digits})

\* C4: the selected body number is a candidate of maximal combined score, and
\* every other candidate of the same score was first seen later in the list.
C4_ConsensusSelection ==
    (sw_pc = "done" /\ all_candidates # <<>>) =>
        /\ sw_result.some
        /\ \E i \in 1..Len(all_candidates) : all_candidates[i] = sw_result.text
        /\ \A i \in 1..Len(all_candidates) :
              LET c == all_candidates[i]
                  w == sw_result.text
              IN \/ StatedScore(c, all_candidates) < StatedScore(w, all_candidates)
                 \/ /\ StatedScore(c, all_candidates) = StatedScore(w, all_candidates)
                    /\ FirstSeen(w, all_candidates) <= FirstSeen(c, all_candidates)

\* Two distinct candidates tie at the maximum and the first seen is selected
C4_Witness ==
    /\ sw_pc = "done" /\ sw_ocr.profile = "psm" /\ sw_ocr.fail = -1
    /\ sw_result = Str(VinA)
    /\ StatedScore(VinA8, all_candidates) = StatedScore(VinA, all_candidates)
    /\ FirstSeen(VinA, all_candidates) < FirstSeen(VinA8, all_candidates)

\* The sweep under its scheduling: the loops run on without suspension, so a
\* step that can be taken is taken (every step moves sw_pc or sw_i)
SpecSweepLive == SpecSweep /\ WF_<<sw_pc, sw_i>>(NextSweep)

\* 4 contrast presets x 3 scale factors (halves) x 3 page-segmentation modes
StatedCombinations(rows) ==
    {<<20, 8>>, <<30, 8>>, <<20, 4>>, <<15, 16>>}
    \X (IF rows >= 200 THEN {2, 3, 4} ELSE {4, 5, 6})
    \X {3, 6, 11}

AllAttempted ==
    /\ sw_pc = "done"
    /\ sw_attempts = 36
    /\ sw_tried = {<<c[1], c[2], c[3]>> : c \in StatedCombinations(sw_rows)}

ProducedBy(ocr, c) ==
    {<<v, k>> \in Variants \X (1..2) :
        /\ k <= Len(PassCandidates(SweepEngine(ocr, v)))
        /\ PassCandidates(SweepEngine(ocr, v))[k] = c}

RECURSIVE CandidatesInOrder(_, _, _)
\* all_candidates had the variants been processed, or completed, in `order`
CandidatesInOrder(ocr, order, k) ==
    IF k > Len(order) THEN <<>>
    ELSE PassCandidates(SweepEngine(ocr, order[k])) \o CandidatesInOrder(ocr, order, k + 1)

VariantOrder == [i \in 1..NumVariants |-> i - 1]
OtherOrders ==
    {Reversed(VariantOrder)} \cup {Rotated(VariantOrder, n) : n \in {1, 7, 20}}

Items(counter) == {counter[k] : k \in 1..Len(counter)}

\* C19: the tally of the sweep is exact and order-independent: the count of
\* each distinct candidate is the number of (variant, window position) pairs
\* that produced it, and the variants taken in another order give the same
\* count for every candidate.
C19_TallyExact ==
    sw_pc = "done" =>
        \A tally \in {Items(Counter(all_candidates))} :
            /\ \A i \in 1..Len(all_candidates) : \E item \in tally : item[1] = all_candidates[i]
            /\ \A item \in tally : item[2] = Cardinality(ProducedBy(sw_ocr, item[1]))
            /\ \A order \in OtherOrders :
                  Items(Counter(CandidatesInOrder(sw_ocr, order, 1))) = tally

\* Twelve passes read a text of 18 characters: two windows each, and both
\* candidates are counted twelve times
C19_Witness ==
    /\ sw_pc = "done" /\ sw_ocr.profile = "long" /\ sw_ocr.fail = -1
    /\ <<VinA, 12>> \in Items(Counter(all_candidates))
    /\ Cardinality(Items(Counter(all_candidates))) = 2

\* C15: frequency dominates structure: of any two distinct candidates, the
\* one observed strictly more often across the sweep has the strictly higher
\* combined score, and the other one is not selected.
C15_FrequencyDominates ==
    sw_pc = "done" =>
        \A i, j \in 1..Len(all_candidates) :
            \A often \in {all_candidates[i]} : \A seldom \in {all_candidates[j]} :
                Occurrences(often, all_candidates) > Occurrences(seldom, all_candidates)
                    => /\ combined_score(<<often, Occurrences(often, all_candidates)>>)
                            > combined_score(<<seldom,
                                               Occurrences(seldom, all_candidates)>>)
                       /\ sw_result # Str(seldom)

-----------------------------------------------------------------------------
(* extract_vin on a page, the engine reading or failing independently at   *)
(* each of the two page-segmentation modes.                                *)

\* (the last text is VinA with a Cyrillic capital read into it)
VinReadings ==
    {OcrRaises}
    \cup {OcrReturns(t) : t \in {<<>>, TextA, TextA8, TextX, TextY, TextLong, TextO,
                                  SubSeq(VinA, 1, 9) \o <<"YA*">> \o SubSeq(VinA, 10, 17)}}

InitVin ==
    /\ fn_pc = "called"
    /\ fn_in \in [height : {1, 277, 1000}, ocr3 : VinReadings, ocr6 : VinReadings]
    /\ fn_out = Nil
    /\ SweepIdle /\ BatchIdle

ExtractVin ==
    /\ fn_pc = "called"
    /\ \E r \in {extract_vin(fn_in.height, fn_in.ocr3, fn_in.ocr6)} :
          /\ fn_out' = r.value
          /\ fn_pc' = IF r.raised THEN "raised" ELSE "returned"
    /\ UNCHANGED <<fn_in, sw_vars, batch_vars>>

SpecVin == InitVin /\ [][ExtractVin]_vars

\* (10 if the first character is a letter) + digits among the last 8 characters
StatedVinScore(c) ==
    (IF c[1] \in LatinUpper THEN 10 ELSE 0)
    + Cardinality({i \in (Len(c) - 7)..Len(c) : c[i] \in Digits})

\* C16: extract_vin takes the candidates of the pass at mode 3, then those of
\* the pass at mode 6, a failed pass contributing none and not touching the
\* other's; it returns not-found exactly when there is no candidate, and
\* otherwise the candidate of maximal score, the earliest of them on ties.
C16_VinSelection ==
    fn_pc = "returned" =>
        \A cands \in {PassCandidates(fn_in.ocr3) \o PassCandidates(fn_in.ocr6)} :
            /\ fn_out = None <=> cands = <<>>
            /\ cands # <<>> =>
                  \E i \in 1..Len(cands) :
                      /\ fn_out = Str(cands[i])
                      /\ \A j \in 1..Len(cands) :
                            /\ StatedVinScore(cands[j]) <= StatedVinScore(cands[i])
                            /\ j < i => StatedVinScore(cands[j]) < StatedVinScore(cands[i])

\* The pass at mode 3 fails and the candidate of the pass at mode 6 is returned
C16_Witness ==
    /\ fn_pc = "returned"
    /\ fn_in.ocr3 = OcrRaises
    /\ fn_in.ocr6 = OcrReturns(TextLong)
    /\ fn_out = Str(VinA)

-----------------------------------------------------------------------------
(* The two identifier extractors on a page: extract_vin as above, and      *)
(* extract_body_number with the engine reading or failing independently at *)
(* each of the three page-segmentation modes of the sweep.                 *)

ExtractBodyNumber ==
    /\ fn_pc = "body_called"
    /\ \E r \in {extract_body_number(fn_in.height,
                                     [v \in Variants |-> fn_in.by_psm[PsmOf(v)]])} :
          /\ fn_out' = r.value
          /\ fn_pc' = IF r.raised THEN "raised" ELSE "body_returned"
    /\ UNCHANGED <<fn_in, sw_vars, batch_vars>>

SpecIdentifiers ==
    /\ \/ InitVin
       \/ /\ fn_pc = "body_called"
          /\ fn_in \in [height : {2, 2000}, by_psm : [1..Len(psm_modes) -> VinReadings]]
          /\ fn_out = Nil
          /\ SweepIdle /\ BatchIdle
    /\ [][ExtractVin \/ ExtractBodyNumber]_vars

\* What the engine did on the passes of the call in fn_in
PassReadings ==
    IF fn_pc \in {"called", "returned"} THEN {fn_in.ocr3, fn_in.ocr6}
    ELSE {fn_in.by_psm[k] : k \in 1..Len(psm_modes)}

\* value is absent, or 17 characters of the VIN alphabet that stand next to
\* each other in one pass's uppercased text reduced to the characters of `kept`
WindowOfOnePass(value, kept) ==
    \/ value = None
    \/ /\ value.some
       /\ Len(value.text) = 17
       /\ \A i \in 1..17 : value.text[i] \in (LatinUpper \ {"I", "O", "Q"}) \cup Digits
       /\ \E ocr \in PassReadings :
             /\ ocr.ok
             /\ \E cleaned \in {Keep(upper(ocr.text), kept)} :
                   \E i \in 1..(Len(cleaned) - 16) :
                       SubSeq(cleaned, i, i + 16) = value.text

\* C21 as stated: a VIN returned by extract_vin and a body number returned
\* by extract_body_number is absent or exactly 17 characters long, made of
\* digits and Latin capitals other than I, O, Q, and a contiguous substring
\* of one pass's uppercased OCR text with all non-alphanumeric characters
\* removed.
C21_WindowOfAlphanumerics ==
    fn_pc \in {"returned", "body_returned"} =>
        WindowOfOnePass(fn_out, LatinUpper \cup LatinLower \cup CyrUpper \cup CyrLower
                                \cup Digits)

\* C21, the cleaning being what it is in the code: a returned VIN or body
\* number is absent or exactly 17 characters long, made of digits and Latin
\* capitals other than I, O, Q, and a contiguous substring of one pass's
\* uppercased OCR text with every character other than A-Z and 0-9 removed.
C21_WindowOfLatinAndDigits ==
    fn_pc \in {"returned", "body_returned"} =>
        WindowOfOnePass(fn_out, LatinUpper \cup Digits)

\* One mode fails, another reads a VIN with a Cyrillic letter inside it, and
\* the body number is the VIN around that letter
C21_Witness ==
    /\ fn_pc = "body_returned"
    /\ fn_in.by_psm[1] = OcrRaises
    /\ fn_in.by_psm[2] =
           OcrReturns(SubSeq(VinA, 1, 9) \o <<"YA*">> \o SubSeq(VinA, 10, 17))
    /\ fn_out = Str(VinA)

-----------------------------------------------------------------------------
(* extract_reg_number on a page, the engine reading one or two lines of    *)
(* the plate region, or failing.                                           *)

\* Lines the engine may read in the plate region
PlateLines ==
    [read |-> <<"a","1","2","3","b","c","7","7">>,
     label |-> <<"N","o"," ","a","1","2","3","b","c","7","7">>,
     two |-> <<"a","1","2","3","b","c","7","7"," ","k","4","5","6","m","h","9","9","9">>,
     zero |-> <<"a","1","0","2","b","c","7","7">>,
     zeros |-> <<"a","1","0","0","b","c","7","7">>,
     spaced |-> <<"BE*","1","2","3"," ","4","5"," ","a","b">>,
     empty |-> <<>>,
     digits |-> <<"1","2","3","4","5">>]

PlateReadings ==
    {OcrRaises} \cup {OcrReturns(PlateLines[l]) : l \in DOMAIN PlateLines}
    \cup {OcrReturns(PlateLines[l1] \o <<"\n">> \o PlateLines[l2]) :
              l1, l2 \in DOMAIN PlateLines}

InitRegNumber ==
    /\ fn_pc = "called"
    /\ fn_in \in [height : {277, 1000}, ocr : PlateReadings]
    /\ fn_out = Nil
    /\ SweepIdle /\ BatchIdle

ExtractRegNumber ==
    /\ fn_pc = "called"
    /\ \E r \in {extract_reg_number(fn_in.height, fn_in.ocr)} :
          /\ fn_out' = r.value
          /\ fn_pc' = IF r.raised THEN "raised" ELSE "returned"
    /\ UNCHANGED <<fn_in, sw_vars, batch_vars>>

SpecRegNumber == InitRegNumber /\ [][ExtractRegNumber]_vars

\* the plate grammar matches s from position i on
PlateAt(s, i) == StartsWithPlate(SubSeq(s, i, Len(s)), 2)
\* the match at position i, with the third region digit when there is one
PlateFrom(s, i) ==
    SubSeq(s, i, IF StartsWithPlate(SubSeq(s, i, Len(s)), 3) THEN i + 8 ELSE i + 7)

\* a cleaned line of length 8 to 10 with 3 to 4 letters and 4 to 6 digits
StatedQualifies(cleaned) ==
    /\ Len(cleaned) \in 8..10
    /\ Cardinality({i \in 1..Len(cleaned) : cleaned[i] \in CyrUpperRange}) \in 3..4
    /\ Cardinality({i \in 1..Len(cleaned) : cleaned[i] \in Digits}) \in 4..6

C20_NoZeroInPlate ==
    (fn_pc = "returned" /\ fn_out.some) =>
        \A i \in 1..Len(fn_out.text) :
            fn_out.text[i] # "0" /\ fn_out.text[i] \notin TableKeys

\* A plate read with a zero in its digit group comes back with the Cyrillic
\* letter in the zero's place
C20_Witness ==
    /\ fn_pc = "returned"
    /\ fn_in.ocr = OcrReturns(PlateLines.zero)
    /\ fn_out = Str(<<"A*","1","O*","2","B*","C*","7","7">>)

-----------------------------------------------------------------------------
(* A batch: process_directory over the files of a directory, then the      *)
(* output.  A file is described by whether it decodes, its height, and a   *)
(* reading profile of the engine for each of its three regions.            *)

MaxDocs == 2

PageHeights == {277, 1000}

PlateText == <<"a","1","2","3","b","c","7","7","\n">>
PlateProfiles == {"plate", "blank", "down"}
PlateEngine(profile) ==
    CASE profile = "plate" -> OcrReturns(PlateText)
      [] profile = "blank" -> OcrReturns(<<>>)
      [] OTHER -> OcrRaises

VinProfiles == {"clean", "psm6", "down"}
VinEngine(profile, psm) ==
    CASE profile = "clean" -> IF psm = 3 THEN OcrReturns(TextA) ELSE OcrReturns(TextA8)
      [] profile = "psm6" -> IF psm = 3 THEN OcrRaises ELSE OcrReturns(TextY)
      [] OTHER -> OcrRaises

DocBodyProfiles == {"rare", "down"}

Undecodable == [decodable |-> FALSE, height |-> 0, plate |-> "down", vin |-> "down",
                body |-> "down"]
Files ==
    [decodable : {TRUE}, height : PageHeights, plate : PlateProfiles,
     vin : VinProfiles, body : DocBodyProfiles] \cup {Undecodable}

\* The document a file is to cv2.imread and the engine
DocOf(f) ==
    [decodable |-> f.decodable, height |-> f.height,
     plate |-> PlateEngine(f.plate),
     vin3 |-> VinEngine(f.vin, 3), vin6 |-> VinEngine(f.vin, 6),
     body |-> BodyOcr(f.body)]

InitBatch ==
    /\ impl \in {"VehicleParser", "FinalVehicleParser"}
    /\ nfiles \in 0..MaxDocs
    /\ idx = 0
    /\ pc = "loop"
    /\ cur = Undecodable
    /\ results = <<>>
    /\ output = Nil
    /\ ocr_heights = {}
    /\ decode_failures = 0
    /\ FnIdle /\ SweepIdle

\* VehicleParser.process_directory, one file: parse_document returns
ParseReturns ==
    /\ impl = "VehicleParser" /\ pc = "loop" /\ idx < nfiles
    /\ \E f \in Files : \E r \in {parse_document(idx + 1, DocOf(f))} :
             /\ ~r.raised
             /\ cur' = f
             /\ results' = Append(results, r.record)
             /\ ocr_heights' = r.heights
    /\ idx' = idx + 1
    /\ UNCHANGED <<impl, nfiles, pc, output, decode_failures, fn_vars, sw_vars>>

\* VehicleParser.process_directory, one file: the except branch
ParseRaises ==
    /\ impl = "VehicleParser" /\ pc = "loop" /\ idx < nfiles
    /\ \E f \in Files : \E r \in {parse_document(idx + 1, DocOf(f))} :
             /\ r.raised
             /\ cur' = f
             /\ results' = Append(results, Record(idx + 1, None, None, None))
             /\ ocr_heights' = r.heights
             /\ decode_failures' = IF f.decodable THEN decode_failures
                                   ELSE decode_failures + 1
    /\ idx' = idx + 1
    /\ UNCHANGED <<impl, nfiles, pc, output, fn_vars, sw_vars>>

\* cli.main after process_directory: save_results
SaveResults ==
    /\ impl = "VehicleParser" /\ pc = "loop" /\ idx = nfiles
    /\ output' = save_results(results)
    /\ pc' = "saved"
    /\ UNCHANGED <<impl, nfiles, idx, cur, results, ocr_heights, decode_failures,
                   fn_vars, sw_vars>>

\* FinalVehicleParser.process_directory, one file: parse_document returns
FinalParseReturns ==
    /\ impl = "FinalVehicleParser" /\ pc = "loop" /\ idx < nfiles
    /\ \E f \in Files : \E r \in {v3_parse_document(idx + 1, DocOf(f))} :
             /\ ~r.raised
             /\ cur' = f
             /\ results' = Append(results, r.record)
             /\ ocr_heights' = r.heights
    /\ idx' = idx + 1
    /\ UNCHANGED <<impl, nfiles, pc, output, decode_failures, fn_vars, sw_vars>>

\* FinalVehicleParser.process_directory, one file: parse_document raises, and
\* nothing catches it: the exception leaves process_directory and run.py's main
FinalParseRaises ==
    /\ impl = "FinalVehicleParser" /\ pc = "loop" /\ idx < nfiles
    /\ \E f \in Files : \E r \in {v3_parse_document(idx + 1, DocOf(f))} :
             /\ r.raised
             /\ cur' = f
             /\ ocr_heights' = r.heights
             /\ decode_failures' = IF f.decodable THEN decode_failures
                                   ELSE decode_failures + 1
    /\ idx' = idx + 1
    /\ pc' = "crashed"
    /\ UNCHANGED <<impl, nfiles, results, output, fn_vars, sw_vars>>

\* run.py's main after process_directory
RunOutput ==
    /\ impl = "FinalVehicleParser" /\ pc = "loop" /\ idx = nfiles
    /\ output' = run_output(results)
    /\ pc' = "saved"
    /\ UNCHANGED <<impl, nfiles, idx, cur, results, ocr_heights, decode_failures,
                   fn_vars, sw_vars>>

Next ==
    \/ ParseReturns \/ ParseRaises \/ SaveResults
    \/ FinalParseReturns \/ FinalParseRaises \/ RunOutput

Spec == InitBatch /\ [][Next]_vars

\* The file last taken from the directory has been handled
Handled == idx > 0 /\ pc \in {"loop", "crashed"}

\* C1: when a page decodes, the VIN and the body number of its record are the
\* ones VIN extraction and body-number extraction compute for it, also when
\* plate extraction fails or finds nothing.
C1_ExtractorsIndependent ==
    (impl = "VehicleParser" /\ Handled /\ cur.decodable) =>
        LET Independent(d) ==
                /\ Len(results) = idx
                /\ results[idx].vin = extract_vin(d.height, d.vin3, d.vin6).value
                /\ results[idx].body_number = extract_body_number(d.height, d.body).value
        IN Independent(DocOf(cur))

\* C2: in both batch entry points a file that fails to decode yields a record
\* with the three fields unset, and every file of the directory gets its record.
C2_DecodeFailureIsLocal ==
    /\ (Handled /\ ~cur.decodable) =>
          /\ pc # "crashed"
          /\ Len(results) = idx
          /\ results[idx] = Record(idx, None, None, None)
    /\ pc = "saved" => Len(results) = nfiles

Present(x) == x.some

\* C5: after save_results total_processed is the number of records and each
\* found-count is the number of records whose field is present; an empty batch
\* gives zeros, and a batch whose files all fail to decode gives
\* total_processed = N, zero found-counts and only absent fields.
C5_SaveResultsCounts ==
    (impl = "VehicleParser" /\ pc = "saved") =>
        LET recs == output.documents
            stats == output.statistics
        IN /\ recs = results
           /\ Len(recs) = nfiles
           /\ output.total_processed = Len(recs)
           /\ stats.reg_numbers_found =
                 Cardinality({i \in 1..Len(recs) : Present(recs[i].reg_number)})
           /\ stats.vins_found =
                 Cardinality({i \in 1..Len(recs) : Present(recs[i].vin)})
           /\ stats.body_numbers_found =
                 Cardinality({i \in 1..Len(recs) : Present(recs[i].body_number)})
           /\ nfiles = 0 =>
                 /\ output.total_processed = 0
                 /\ stats = [reg_numbers_found |-> 0, vins_found |-> 0,
                             body_numbers_found |-> 0]
           /\ decode_failures = nfiles =>
                 /\ output.total_processed = nfiles
                 /\ stats = [reg_numbers_found |-> 0, vins_found |-> 0,
                             body_numbers_found |-> 0]
                 /\ \A i \in 1..Len(recs) :
                       recs[i] = Record(i, None, None, None)

\* A batch of two files: one fails to decode, the other gives a VIN but no plate
C5_Witness ==
    /\ impl = "VehicleParser" /\ pc = "saved"
    /\ output.total_processed = 2
    /\ decode_failures = 1
    /\ output.statistics.vins_found = 1
    /\ output.statistics.reg_numbers_found = 0

\* The record an implementation makes of a file, when it makes one
ParseOf(which, file, f) ==
    IF which = "VehicleParser" THEN parse_document(file, DocOf(f))
    ELSE v3_parse_document(file, DocOf(f))

\* C6: in both parse_document implementations the reported body number does
\* not change when the engine's outcome on the VIN region changes and the
\* rest of the document stays as it is.
C6_BodyNumberNotFromVin ==
    (Handled /\ pc = "loop" /\ cur.decodable) =>
        \A other \in VinProfiles :
            \A alt \in {ParseOf(impl, idx, [cur EXCEPT !.vin = other])} :
                ~alt.raised => alt.record.body_number = results[idx].body_number

\* C7: every image handed to the OCR engine, on the plate path, the VIN path
\* and each body-number variant, is at least min_image_height rows high.
C7_OcrHeightAtLeastMinimum ==
    impl = "VehicleParser" =>
        \A x \in ocr_heights : x[2] >= min_image_height

====
